---- MODULE Spec2Model ----
(***************************************************************************)
(* Model of src/strategy/strategy2.py: class TradingStrategy.              *)
(*                                                                         *)
(* One evaluation cycle (make_predicate) is a coroutine.  Its atomic steps *)
(* are the stretches of code between two awaits; between two steps another *)
(* task of the event loop may write the holdings document.                 *)
(*                                                                         *)
(* Numbers.  Prices in the stores are Python floats.  A float is modelled  *)
(* by the exact rational it denotes, a pair <<n, d>> in lowest terms with  *)
(* d > 0.  numpy scalars also take the values inf, -inf and nan, written   *)
(* <<1, 0>>, <<-1, 0>> and <<0, 0>>.  Integer-valued prices are written as *)
(* TLA+ integers (the float 2.0 is written 2) and converted by Num.        *)
(***************************************************************************)
EXTENDS Integers, Sequences, FiniteSets, TLC

\* ------------------------------------------------------------------ bounds
\* Largest price of the market snapshot, of a buy order, of a stored price
\* (snapshot and order prices range over 0 .. MaxPrice).
MaxPrice == 3
\* Longest stored price history (number of snapshot records).
MaxLen == 15

\* --------------------------------------------------------------- constants
\* ATR period of the engine (calculate_atr(prices, period=14)).
AtrPeriod == 14
\* Default history frame (frame: int = 1000).
DefaultFrame == 1000

\* -------------------------------------------------------------- arithmetic
None == <<>>

Abs(x) == IF x < 0 THEN -x ELSE x

Sign(x) == IF x < 0 THEN -1 ELSE IF x > 0 THEN 1 ELSE 0

RECURSIVE GCD(_, _)
GCD(a, b) == IF b = 0 THEN a ELSE GCD(b, a % b)

\* The value n/d: lowest terms, positive denominator; d = 0 gives inf/nan.
Q(n, d) ==
    IF d = 0 THEN <<Sign(n), 0>>
    ELSE LET g == GCD(Abs(n), Abs(d))
             s == Sign(d)
         IN  <<(s * n) \div g, (s * d) \div g>>

Num(i) == <<i, 1>>

Inf == <<1, 0>>

NaN == <<0, 0>>

IsNaN(x) == x = NaN

IsFinite(x) == x[2] # 0

Neg(x) == <<-x[1], x[2]>>

\* IEEE addition: nan is contagious, inf + (-inf) = nan.
Add(x, y) ==
    IF IsNaN(x) \/ IsNaN(y) THEN NaN
    ELSE IF ~IsFinite(x) /\ ~IsFinite(y) THEN (IF x = y THEN x ELSE NaN)
    ELSE IF ~IsFinite(x) THEN x
    ELSE IF ~IsFinite(y) THEN y
    ELSE LET g == GCD(x[2], y[2])
             l == (x[2] \div g) * y[2]
         IN  Q(x[1] * (l \div x[2]) + y[1] * (l \div y[2]), l)

Sub(x, y) == Add(x, Neg(y))

\* IEEE multiplication: inf * 0 = nan.  Finite factors are cross-cancelled
\* before they are multiplied, which keeps the intermediate products small.
Mul(x, y) ==
    IF ~IsFinite(x) \/ ~IsFinite(y) THEN Q(x[1] * y[1], 0)
    ELSE LET g1 == GCD(Abs(x[1]), y[2])
             g2 == GCD(Abs(y[1]), x[2])
         IN  Q((x[1] \div g1) * (y[1] \div g2), (x[2] \div g2) * (y[2] \div g1))

\* numpy true division: x/0 is inf, -inf or nan (a RuntimeWarning, no raise).
NpDiv(x, y) ==
    IF IsNaN(y) THEN NaN
    ELSE IF y[1] = 0 THEN Q(x[1], 0)
    ELSE Q(x[1] * y[2] * Sign(y[1]), x[2] * Abs(y[1]))

\* Comparisons: every comparison with nan is False.
Leq(x, y) ==
    /\ ~IsNaN(x)
    /\ ~IsNaN(y)
    /\ IF ~IsFinite(x) /\ ~IsFinite(y) THEN x[1] <= y[1]
       ELSE x[1] * y[2] <= y[1] * x[2]

Lt(x, y) ==
    /\ ~IsNaN(x)
    /\ ~IsNaN(y)
    /\ IF ~IsFinite(x) /\ ~IsFinite(y) THEN x[1] < y[1]
       ELSE x[1] * y[2] < y[1] * x[2]

Geq(x, y) == Leq(y, x)

Gt(x, y) == Lt(y, x)

RECURSIVE SumSeq(_)
SumSeq(s) == IF s = <<>> THEN 0 ELSE s[1] + SumSeq(Tail(s))

\* np.mean of a non-empty list of integer-valued floats.
NpMean(s) == Q(SumSeq(s), Len(s))

\* Python's s[-k:] for 1 <= k <= len(s).
LastK(s, k) == SubSeq(s, Len(s) - k + 1, Len(s))

\* ---------------------------------------------------------------- indicators
\* calculate_sma: mean of the last `period` prices, None when too short.
calculate_sma(prices, period) ==
    IF Len(prices) >= period THEN NpMean(LastK(prices, period)) ELSE None

\* ema[-1] once the loop has consumed the first j prices (ema = [prices[0]]
\* for j = 1).
RECURSIVE EmaAt(_, _, _)
EmaAt(prices, k, j) ==
    IF j = 1 THEN Num(prices[1])
    ELSE Add(Mul(Num(prices[j]), k), Mul(EmaAt(prices, k, j - 1), Sub(Num(1), k)))

\* calculate_ema: seed prices[0], k = 2/(period+1), over the whole series.
calculate_ema(prices, period) ==
    IF Len(prices) < period THEN None
    ELSE EmaAt(prices, Q(2, period + 1), Len(prices))

\* The deltas prices[i] - prices[i-1], i = 1 .. len-1.
Deltas(prices) == [i \in 1..(Len(prices) - 1) |-> prices[i + 1] - prices[i]]

RECURSIVE SelectGains(_)
SelectGains(ds) ==
    IF ds = <<>> THEN <<>>
    ELSE (IF ds[1] > 0 THEN <<ds[1]>> ELSE <<>>) \o SelectGains(Tail(ds))

RECURSIVE SelectLosses(_)
SelectLosses(ds) ==
    IF ds = <<>> THEN <<>>
    ELSE (IF ds[1] > 0 THEN <<>> ELSE <<-ds[1]>>) \o SelectLosses(Tail(ds))

\* calculate_rsi: gains and losses over the entire series.
calculate_rsi(prices, period) ==
    IF Len(prices) < period THEN None
    ELSE LET gains == SelectGains(Deltas(prices))
             losses == SelectLosses(Deltas(prices))
             average_gain == IF gains # <<>> THEN NpMean(gains) ELSE Num(0)
             average_loss == IF losses # <<>> THEN NpMean(losses) ELSE Num(0)
             rs == NpDiv(average_gain, average_loss)
         IN  IF average_loss = Num(0) THEN Num(100)
             ELSE Sub(Num(100), NpDiv(Num(100), Add(Num(1), rs)))

\* tr[i] for the 0-based index i: tr[0] = 0, tr[i] = |prices[i] - prices[i-1]|.
TrueRange(prices, i) == IF i = 0 THEN 0 ELSE Abs(prices[i + 1] - prices[i])

\* atr[j] for the 0-based index j >= period - 1 (Wilder smoothing).
RECURSIVE AtrAt(_, _, _)
AtrAt(prices, period, j) ==
    IF j = period - 1
    THEN Q(SumSeq([i \in 1..period |-> TrueRange(prices, i - 1)]), period)
    ELSE NpDiv(Add(Mul(AtrAt(prices, period, j - 1), Num(period - 1)),
                   Num(TrueRange(prices, j))),
               Num(period))

\* calculate_atr: the store atr[period - 1] = ... raises IndexError when the
\* arrays are shorter than period; otherwise the result is atr[-1].
calculate_atr(prices, period) ==
    IF period - 1 >= Len(prices)
    THEN [raised |-> "IndexError", value |-> None]
    ELSE [raised |-> "", value |-> AtrAt(prices, period, Len(prices) - 1)]

\* ------------------------------------------------------------------- stores
Tickers == {"AAA", "BBB"}

InstrumentTypes == {"share", "bond"}

UidOf(t) == IF t = "AAA" THEN "uid-AAA" ELSE "uid-BBB"

\* db.instruments.find_one({'ticker': t}): the instrument, or None.
NoInstrument == [found |-> FALSE, ticker |-> "", uid |-> "", instrument_type |-> ""]

Instrument(t, ty) == [found |-> TRUE, ticker |-> t, uid |-> UidOf(t), instrument_type |-> ty]

LookupResults(t) == {NoInstrument} \cup {Instrument(t, ty) : ty \in InstrumentTypes}

\* db.orders.find({'order_type': 'buy', 'instrument_uid': uid}).to_list().
BuyOrder(uid, p) == [order_type |-> "buy", instrument_uid |-> uid, price |-> p]

\* Nothing in the engine restricts the price of a stored order; an order
\* priced 0 makes the mean buy price 0.0.
OrderLists(uid) ==
    {<<>>, <<BuyOrder(uid, 0)>>, <<BuyOrder(uid, 1)>>, <<BuyOrder(uid, MaxPrice)>>,
     <<BuyOrder(uid, 1), BuyOrder(uid, MaxPrice)>>}

\* db.securities.find_one({}): None (exists = FALSE) or the holdings document.
Holding(t, b) == [instrument_uid |-> UidOf(t), balance |-> b]

SecurityDocs ==
    {[exists |-> FALSE, securities |-> <<>>],
     [exists |-> TRUE, securities |-> <<Holding("AAA", 10)>>],
     [exists |-> TRUE,
      securities |-> <<Holding("BBB", 10), Holding("AAA", 0), Holding("AAA", 10)>>],
     [exists |-> TRUE, securities |-> <<Holding("AAA", 10), Holding("BBB", 10)>>]}

\* The i-th price (i = 1 is the most recent record) of a stored series.
ShapePrice(kind, i) ==
    CASE kind = "const" -> 2
      [] kind = "asc" -> IF i < MaxPrice THEN i ELSE MaxPrice
      [] kind = "desc" -> IF i < MaxPrice THEN MaxPrice + 1 - i ELSE 1
      [] kind = "zig" -> 1 + (i % MaxPrice)

\* One record of db.market_data: {'marketData': {ticker: {'price': p}}}.
HistoryRecord(i, ka, kb) ==
    [t \in {x \in Tickers : (IF x = "AAA" THEN ka ELSE kb) # "none"} |->
        ShapePrice(IF t = "AAA" THEN ka ELSE kb, i)]

HistoryShapes ==
    {<<0, "none", "none">>, <<2, "asc", "none">>, <<3, "desc", "asc">>,
     <<3, "asc", "none">>, <<AtrPeriod, "const", "zig">>, <<MaxLen, "zig", "const">>}

\* The contents of db.market_data, sorted by _id descending.
Histories == {[i \in 1..h[1] |-> HistoryRecord(i, h[2], h[3])] : h \in HistoryShapes}

\* ------------------------------------------------------------ configuration
StopLosses == {0, 100}

TakeProfits == {0, 100}

\* Lookback periods: k = 2/(period+1) is 1/2 for period 3.
Periods == {3}

Configs ==
    [sl : StopLosses, tp : TakeProfits, is_reverse : BOOLEAN, period : Periods,
     frame : {DefaultFrame}]

\* forecast: ticker -> probability; a ticker may be missing from the dict.
Forecasts ==
    {("BBB" :> Q(4, 10)),
     ("AAA" :> Q(4, 10)) @@ ("BBB" :> Q(6, 10)),
     ("AAA" :> Q(6, 10))}

\* market_data['marketData'].items(), in the dict's insertion order.
Quote(t, p) == [ticker |-> t, price |-> p]

\* Snapshots of one ticker, with every price, and the empty snapshot.
SingleSnapshots == {<<>>} \cup {<<Quote("AAA", p)>> : p \in 0..MaxPrice}

\* Snapshots of two tickers, in both orders.
PairSnapshots ==
    {<<Quote(tu[1], p), Quote(tu[2], q)>> :
        tu \in {x \in Tickers \X Tickers : x[1] # x[2]},
        p \in {1, MaxPrice}, q \in {1, MaxPrice}}

\* The configuration the two-ticker cycles run under.
PairConfig ==
    [sl |-> 100, tp |-> 100, is_reverse |-> FALSE, period |-> 3, frame |-> DefaultFrame]

PairForecast == ("AAA" :> Q(4, 10)) @@ ("BBB" :> Q(6, 10))

\* ------------------------------------------------------------------ engine
VARIABLES
    cfg,          \* self.sl, self.tp, self.is_reverse, self.period, self.frame
    forecast,     \* self.forecast
    market_data,  \* self.market_data
    securities,   \* the document of db.securities
    pc,           \* the await the coroutine is suspended at, "done" or "failed"
    error,        \* the exception that ended the cycle
    trends,       \* make_predicate's local `trends`
    idx,          \* position of the for loop in market_data.items()
    messages,     \* make_predicate's local `messages`
    instrument,   \* make_predicate's local `instrument`
    locals,       \* the locals of the running (or last) _get_predicate call
    loads,        \* number of _get_trends calls of this cycle
    first_doc     \* the db.securities document the cycle read first

vars ==
    <<cfg, forecast, market_data, securities, pc, error, trends, idx, messages,
      instrument, locals, loads, first_doc>>

\* find().sort('_id', -1).limit(frame)
Limit(records, frame) ==
    IF Len(records) <= frame THEN records ELSE SubSeq(records, 1, frame)

RECURSIVE PricesOf(_, _)
PricesOf(records, t) ==
    IF records = <<>> THEN <<>>
    ELSE (IF t \in DOMAIN records[1] THEN <<records[1][t]>> ELSE <<>>)
         \o PricesOf(Tail(records), t)

\* _get_trends: a one-element list holding an error string when the store
\* is empty, otherwise the dict ticker -> list of prices.
_get_trends(history_records) ==
    IF history_records = <<>>
    THEN [is_dict |-> FALSE, items |-> <<"Error: No historical data found">>]
    ELSE [is_dict |-> TRUE,
          items |-> [t \in {x \in Tickers :
                               \E i \in 1..Len(history_records) :
                                   x \in DOMAIN history_records[i]} |->
                        PricesOf(history_records, t)]]

RECURSIVE ScanBalance(_, _)
ScanBalance(secs, uid) ==
    IF secs = <<>> THEN 0
    ELSE IF secs[1].instrument_uid = uid THEN secs[1].balance
    ELSE ScanBalance(Tail(secs), uid)

\* _get_security_balance: the balance of the first holding of the instrument.
_get_security_balance(security_obj, inst) ==
    LET secs == IF security_obj.exists THEN security_obj.securities ELSE <<>>
    IN  ScanBalance(secs, inst.uid)

\* Mutant of _calculate_sl_tp: no halving for instruments other than shares.
_calculate_sl_tp_unhalved(config, inst, atr_value) ==
    <<NpDiv(Num(config.sl), atr_value), NpDiv(Num(config.tp), atr_value)>>

\* _calculate_sl_tp: the absolute values are halved unless the type is share.
_calculate_sl_tp(config, inst, atr_value) ==
    LET sl == IF inst.instrument_type = "share" THEN Num(config.sl) ELSE Q(config.sl, 2)
        tp == IF inst.instrument_type = "share" THEN Num(config.tp) ELSE Q(config.tp, 2)
    IN  <<NpDiv(sl, atr_value), NpDiv(tp, atr_value)>>

RECURSIVE OrderPrices(_)
OrderPrices(buy_orders) ==
    IF buy_orders = <<>> THEN <<>>
    ELSE <<buy_orders[1].price>> \o OrderPrices(Tail(buy_orders))

\* make_predicate, lines 174-178.  With buy orders buy_price is a numpy
\* scalar and a zero mean gives inf or nan; without, the division is
\* Python's and raises on a zero price.
PriceChange(current_price, buy_orders) ==
    LET prices == OrderPrices(buy_orders)
        buy_price == IF prices # <<>> THEN NpMean(prices) ELSE Num(current_price)
        diff == Sub(Num(current_price), buy_price)
    IN  IF prices = <<>> /\ buy_price = Num(0)
        THEN [raised |-> "ZeroDivisionError", buy_price |-> buy_price, value |-> None]
        ELSE [raised |-> "", buy_price |-> buy_price,
              value |-> Mul(NpDiv(diff, buy_price), Num(100))]

\* format(x, '.2f'): the number of hundredths, rounded half to even.
Fmt2(x) ==
    IF IsNaN(x) THEN <<"nan", 0>>
    ELSE IF ~IsFinite(x) THEN <<"inf", x[1]>>
    ELSE LET t == 100 * x[1]
             q == t \div x[2]
             r == t % x[2]
         IN  <<".2f", IF 2 * r < x[2] THEN q
                      ELSE IF 2 * r > x[2] THEN q + 1
                      ELSE IF q % 2 = 0 THEN q ELSE q + 1>>

NoLocals ==
    [ticker |-> "", current_price |-> 0, buy_orders |-> <<>>, buy_price |-> None,
     price_change |-> None, prices |-> <<>>, atr_raised |-> "", atr_value |-> None,
     sl_multiplier |-> None, tp_multiplier |-> None, stop_loss |-> None,
     take_profit |-> None, forecast_prob |-> None, sma |-> None, ema |-> None,
     rsi |-> None, sec_balance |-> -1, out |-> <<>>, returned |-> FALSE]

\* make_predicate, lines 170-178: the locals of one loop iteration.
IterationLocals(inst, current_price, buy_orders, change) ==
    [NoLocals EXCEPT
        !.ticker = inst.ticker,
        !.current_price = current_price,
        !.buy_orders = buy_orders,
        !.buy_price = change.buy_price,
        !.price_change = change.value]

\* _get_predicate, lines 124-142: everything up to the await of the balance.
PredicateLocals(config, fc, inst, base, trend_items) ==
    LET ticker == inst.ticker
        current_price == base.current_price
        prices == IF ticker \in DOMAIN trend_items THEN trend_items[ticker] ELSE <<>>
        atr == calculate_atr(prices, AtrPeriod)
        atr_value == IF atr.raised = "IndexError" THEN Num(1) ELSE atr.value
        mult == _calculate_sl_tp(config, inst, atr_value)
    IN  [base EXCEPT
            !.prices = prices,
            !.atr_raised = atr.raised,
            !.atr_value = atr_value,
            !.sl_multiplier = mult[1],
            !.tp_multiplier = mult[2],
            !.stop_loss = Sub(Num(current_price), Mul(mult[1], atr_value)),
            !.take_profit = Add(Num(current_price), Mul(mult[2], atr_value)),
            !.forecast_prob = IF ticker \in DOMAIN fc THEN fc[ticker] ELSE Num(0),
            !.sma = calculate_sma(prices, config.period),
            !.ema = calculate_ema(prices, config.period),
            !.rsi = calculate_rsi(prices, config.period)]

Message(action, ticker, tag, price) ==
    [action |-> action, ticker |-> ticker, tag |-> tag, price |-> price]

\* Mutant of TrendSignal: reverse mode is ignored.
TrendSignalNoReverse(config, l) ==
    LET price == Num(l.current_price)
    IN  IF Gt(price, l.ema) /\ Gt(price, l.sma) /\ Geq(l.forecast_prob, Q(4, 10))
           /\ (l.rsi # None /\ Lt(l.rsi, Num(35)))
        THEN Message("BUY", l.ticker, "", None)
        ELSE IF Lt(price, l.ema) /\ Lt(price, l.sma) /\ Geq(l.forecast_prob, Q(6, 10))
                /\ (l.rsi # None /\ Gt(l.rsi, Num(70)))
        THEN Message("SELL", l.ticker, "", None)
        ELSE Message("HOLD", l.ticker, "No clear action", None)

\* _get_predicate, lines 152-163: the SMA/EMA/RSI rule.
TrendSignal(config, l) ==
    LET price == Num(l.current_price)
    IN  IF Gt(price, l.ema) /\ Gt(price, l.sma) /\ Geq(l.forecast_prob, Q(4, 10))
           /\ (l.rsi # None /\ Lt(l.rsi, Num(35)))
        THEN Message(IF ~config.is_reverse THEN "BUY" ELSE "SELL", l.ticker, "", None)
        ELSE IF Lt(price, l.ema) /\ Lt(price, l.sma) /\ Geq(l.forecast_prob, Q(6, 10))
                /\ (l.rsi # None /\ Gt(l.rsi, Num(70)))
        THEN Message(IF ~config.is_reverse THEN "SELL" ELSE "BUY", l.ticker, "", None)
        ELSE Message("HOLD", l.ticker, "No clear action", None)

\* Mutant of Decision: take-profit is tested before stop-loss.
DecisionTakeProfitFirst(config, l, sec_balance) ==
    IF Geq(l.price_change, l.tp_multiplier) /\ sec_balance > 0
    THEN <<Message("SELL", l.ticker, "TP", Fmt2(l.take_profit))>>
    ELSE IF Leq(l.price_change, Neg(l.sl_multiplier)) /\ sec_balance > 0
    THEN <<Message("SELL", l.ticker, "SL", Fmt2(l.stop_loss))>>
    ELSE IF l.sma # None /\ l.ema # None
    THEN <<TrendSignal(config, l)>>
    ELSE <<>>

\* _get_predicate, lines 146-163: what the call appends to messages.
Decision(config, l, sec_balance) ==
    IF Leq(l.price_change, Neg(l.sl_multiplier)) /\ sec_balance > 0
    THEN <<Message("SELL", l.ticker, "SL", Fmt2(l.stop_loss))>>
    ELSE IF Geq(l.price_change, l.tp_multiplier) /\ sec_balance > 0
    THEN <<Message("SELL", l.ticker, "TP", Fmt2(l.take_profit))>>
    ELSE IF l.sma # None /\ l.ema # None
    THEN <<TrendSignal(config, l)>>
    ELSE <<>>

\* Mutant of Emit: the new signal is put in front of the list.
EmitInFront(msgs, out) == out \o msgs

\* messages.append(...)
Emit(msgs, out) == msgs \o out

Running == pc \in {"trends", "instrument", "orders", "balance"}

Init ==
    /\ \/ market_data \in SingleSnapshots /\ cfg \in Configs /\ forecast \in Forecasts
       \/ market_data \in PairSnapshots /\ cfg = PairConfig /\ forecast = PairForecast
    /\ securities \in SecurityDocs
    /\ pc = "trends"
    /\ error = ""
    /\ trends = [is_dict |-> TRUE, items |-> <<>>]
    /\ idx = 1
    /\ messages = <<>>
    /\ instrument = NoInstrument
    /\ locals = NoLocals
    /\ loads = 0
    /\ first_doc = <<>>

\* The for statement: the next ticker's lookup, or return messages.
LoopPc(i) == IF i <= Len(market_data) THEN "instrument" ELSE "done"

\* make_predicate, line 168: trends = await self._get_trends().
LoadTrends ==
    /\ pc = "trends"
    /\ \E store \in Histories :
           trends' = _get_trends(Limit(store, cfg.frame))
    /\ loads' = loads + 1
    /\ pc' = LoopPc(idx)
    /\ UNCHANGED <<cfg, forecast, market_data, securities, error, idx, messages,
                   instrument, locals, first_doc>>

\* make_predicate, lines 169-172: the instrument is looked up and its uid
\* read; find_one's None is not subscriptable.
LookupInstrument ==
    /\ pc = "instrument"
    /\ \E inst \in LookupResults(market_data[idx].ticker) :
           /\ instrument' = inst
           /\ IF inst.found
              THEN pc' = "orders" /\ error' = error
              ELSE pc' = "failed" /\ error' = "TypeError"
    /\ locals' = NoLocals
    /\ UNCHANGED <<cfg, forecast, market_data, securities, trends, idx, messages,
                   loads, first_doc>>

\* make_predicate, lines 173-180, and _get_predicate up to its await.
FetchOrders ==
    /\ pc = "orders"
    /\ \E buy_orders \in OrderLists(instrument.uid) :
           LET current_price == market_data[idx].price
               change == PriceChange(current_price, buy_orders)
               base == IterationLocals(instrument, current_price, buy_orders, change)
           IN  IF change.raised # ""
               THEN pc' = "failed" /\ error' = change.raised /\ locals' = base
               ELSE IF ~trends.is_dict
               THEN pc' = "failed" /\ error' = "AttributeError" /\ locals' = base
               ELSE /\ pc' = "balance"
                    /\ error' = error
                    /\ locals' = PredicateLocals(cfg, forecast, instrument, base,
                                                  trends.items)
    /\ UNCHANGED <<cfg, forecast, market_data, securities, trends, idx, messages,
                   instrument, loads, first_doc>>

\* _get_predicate, lines 144-164, and the loop's next iteration.
Decide ==
    /\ pc = "balance"
    /\ LET sec_balance == _get_security_balance(securities, instrument)
           out == Decision(cfg, locals, sec_balance)
       IN  /\ messages' = Emit(messages, out)
           /\ locals' = [locals EXCEPT !.sec_balance = sec_balance, !.out = out,
                                        !.returned = TRUE]
    /\ first_doc' = IF first_doc = <<>> THEN <<securities>> ELSE first_doc
    /\ idx' = idx + 1
    /\ pc' = LoopPc(idx + 1)
    /\ UNCHANGED <<cfg, forecast, market_data, securities, error, trends,
                   instrument, loads>>

\* Another task of the event loop rewrites the holdings document while the
\* cycle is suspended at an await.
ModifyHoldings ==
    /\ Running
    /\ \E doc \in SecurityDocs \ {securities} : securities' = doc
    /\ UNCHANGED <<cfg, forecast, market_data, pc, error, trends, idx, messages,
                   instrument, locals, loads, first_doc>>

Next == LoadTrends \/ LookupInstrument \/ FetchOrders \/ Decide \/ ModifyHoldings

Spec == Init /\ [][Next]_vars

\* ------------------------------------------------------------------- claims
\* The last _get_predicate call has returned: locals holds its inputs and
\* locals.out what it appended.
Returned == locals.returned

ExitTag(out) == IF out = <<>> THEN "" ELSE out[1].tag

ExitFired == ExitTag(locals.out) \in {"SL", "TP"}

StopHit == locals.sec_balance > 0 /\ Leq(locals.price_change, Neg(locals.sl_multiplier))

TakeHit == locals.sec_balance > 0 /\ Geq(locals.price_change, locals.tp_multiplier)

\* C1: the decision of every evaluated ticker follows the priority stop-loss,
\* then take-profit, then the trend rule: a stop-loss SELL (and only it)
\* when balance > 0 and price_change <= -sl_multiplier; otherwise a
\* take-profit SELL when balance > 0 and price_change >= tp_multiplier;
\* otherwise no exit at all.  With a zero balance no exit is ever emitted.
C1_ExitPriority ==
    Returned =>
        /\ Len(locals.out) <= 1
        /\ StopHit => locals.out = <<Message("SELL", locals.ticker, "SL",
                                             Fmt2(locals.stop_loss))>>
        /\ (~StopHit /\ TakeHit) =>
               locals.out = <<Message("SELL", locals.ticker, "TP",
                                      Fmt2(locals.take_profit))>>
        /\ (~StopHit /\ ~TakeHit) => ~ExitFired
        /\ locals.sec_balance = 0 => ~ExitFired

\* C1 witness: both exit conditions hold at once and the stop-loss is emitted.
C1_BothExitsHold == Returned /\ StopHit /\ TakeHit /\ ExitTag(locals.out) = "SL"

\* C2 (as claimed): a ticker without an Instrument never fails the cycle.
C2_MissingInstrumentIsolated == ~(pc = "failed" /\ ~instrument.found)

\* C3 (as claimed): with zero stored snapshots the loader's result is never
\* used as the ticker -> prices mapping, and the cycle does not end like a
\* successful cycle without signals.
C3_NoDataIsExplicit ==
    ~trends.is_dict =>
        /\ error # "AttributeError"
        /\ ~(pc = "done" /\ messages = <<>>)

\* C4 (as claimed): when the ATR of a ticker is 0 the engine does not raise,
\* emits no stop-loss and no take-profit SELL whatever balance and price
\* change are, and the trend rule decides.
C4_ZeroAtrSkipsExits ==
    (locals.atr_value = Num(0)) =>
        /\ pc # "failed"
        /\ Returned =>
               /\ Len(locals.out) = 1
               /\ locals.out[1].tag \notin {"SL", "TP"}
               /\ locals.out[1].action \in {"BUY", "SELL", "HOLD"}

\* C5 (as claimed): every balance a cycle uses is the balance in the
\* holdings document the cycle read first.
C5_SingleHoldingsSnapshot ==
    Returned => locals.sec_balance = _get_security_balance(first_doc[1], instrument)

BuyRule ==
    /\ Gt(Num(locals.current_price), locals.ema)
    /\ Gt(Num(locals.current_price), locals.sma)
    /\ Geq(locals.forecast_prob, Q(4, 10))
    /\ Lt(locals.rsi, Num(35))

SellRule ==
    /\ Lt(Num(locals.current_price), locals.ema)
    /\ Lt(Num(locals.current_price), locals.sma)
    /\ Geq(locals.forecast_prob, Q(6, 10))
    /\ Gt(locals.rsi, Num(70))

\* C6: without an exit and with SMA and EMA present exactly one trend signal
\* is emitted: BUY iff the buy rule holds, else SELL iff the sell rule holds,
\* else HOLD; reverse mode swaps BUY and SELL of the two rules and leaves
\* HOLD and the exits' SELL alone; with SMA or EMA absent nothing is emitted.
C6_TrendRule ==
    Returned =>
        /\ ExitFired => locals.out[1].action = "SELL"
        /\ ~ExitFired =>
               IF locals.sma = None \/ locals.ema = None THEN locals.out = <<>>
               ELSE /\ Len(locals.out) = 1
                    /\ locals.out[1].action =
                          (IF BuyRule THEN (IF cfg.is_reverse THEN "SELL" ELSE "BUY")
                           ELSE IF SellRule THEN (IF cfg.is_reverse THEN "BUY" ELSE "SELL")
                           ELSE "HOLD")

\* C6 witness: the buy rule holds in reverse mode and a SELL is emitted.
C6_ReversedBuy ==
    /\ Returned
    /\ ~ExitFired
    /\ locals.sma # None
    /\ locals.ema # None
    /\ BuyRule
    /\ cfg.is_reverse
    /\ locals.out[1].action = "SELL"

\* C7 (as claimed): on a series shorter than the period SMA, EMA and RSI are
\* absent, and ATR on a series shorter than its period does not raise.
C7_ShortSeriesTotal ==
    (locals.atr_value # None) =>
        /\ Len(locals.prices) < cfg.period =>
               locals.sma = None /\ locals.ema = None /\ locals.rsi = None
        /\ Len(locals.prices) < AtrPeriod => locals.atr_raised = ""

RECURSIVE IsSubsequence(_, _)
IsSubsequence(s, t) ==
    IF s = <<>> THEN TRUE
    ELSE IF t = <<>> THEN FALSE
    ELSE IF s[1] = t[1] THEN IsSubsequence(Tail(s), Tail(t))
    ELSE IsSubsequence(s, Tail(t))

Visited == [i \in 1..(idx - 1) |-> market_data[i].ticker]

\* State part of C8: the signals' tickers are a subsequence of the visited
\* part of the snapshot (so at most one signal per ticker, in snapshot
\* order), and the history is loaded once, before the first evaluation.
C8_Ordered ==
    /\ IsSubsequence([i \in 1..Len(messages) |-> messages[i].ticker], Visited)
    /\ pc = "trends" => loads = 0 /\ idx = 1 /\ messages = <<>>
    /\ pc # "trends" => loads = 1

\* Step part of C8: a step keeps the signals emitted so far as they are and
\* appends at most one.
C8_AppendOnly ==
    /\ Len(messages) <= Len(messages')
    /\ Len(messages') <= Len(messages) + 1
    /\ SubSeq(messages', 1, Len(messages)) = messages

\* C8: the output is built in snapshot order, at most one signal per ticker,
\* append-only, and the history is loaded exactly once, first.
C8_OrderedAppendOnlyOutput == []C8_Ordered /\ [][C8_AppendOnly]_vars

\* C8 witness: a finished two-ticker cycle that skipped its first ticker and
\* emitted a signal for the second.
C8_SecondTickerOnly ==
    /\ pc = "done"
    /\ Len(market_data) = 2
    /\ Len(messages) = 1
    /\ messages[1].ticker = market_data[2].ticker

\* C9 (as claimed): without standing buy orders the average buy price is the
\* current price and the price change is exactly 0, whatever the current
\* price; with buy orders the average is their mean and the change is
\* (current_price - average) / average * 100.
C9_FlatPositionZeroChange ==
    (locals.ticker # "") =>
        IF locals.buy_orders = <<>>
        THEN locals.buy_price = Num(locals.current_price) /\ locals.price_change = Num(0)
        ELSE /\ locals.buy_price = NpMean(OrderPrices(locals.buy_orders))
             /\ locals.price_change =
                   Mul(NpDiv(Sub(Num(locals.current_price), locals.buy_price),
                             locals.buy_price), Num(100))

\* The configured absolute value, halved unless the instrument is a share.
AbsoluteLevel(v) == IF instrument.instrument_type = "share" THEN Num(v) ELSE Q(v, 2)

\* C10: an exit emitted with a nonzero ATR reports current_price - S (stop)
\* or current_price + T (take), S and T the configured values, halved unless
\* the instrument is a share: the level does not depend on the ATR.  On a
\* series of fewer than 14 prices the ATR is 1 and the thresholds are S, T.
C10_LevelsIgnoreAtr ==
    (locals.atr_value # None) =>
        /\ Len(locals.prices) < AtrPeriod =>
               /\ locals.atr_value = Num(1)
               /\ locals.sl_multiplier = AbsoluteLevel(cfg.sl)
               /\ locals.tp_multiplier = AbsoluteLevel(cfg.tp)
        /\ (Returned /\ locals.atr_value # Num(0) /\ ExitTag(locals.out) = "SL") =>
               locals.out[1].price =
                   Fmt2(Sub(Num(locals.current_price), AbsoluteLevel(cfg.sl)))
        /\ (Returned /\ locals.atr_value # Num(0) /\ ExitTag(locals.out) = "TP") =>
               locals.out[1].price =
                   Fmt2(Add(Num(locals.current_price), AbsoluteLevel(cfg.tp)))

\* C10 witness: a stop-loss on a bond whose ATR was computed from 14 or more
\* prices and is not 1.
C10_BondStopWithComputedAtr ==
    /\ Returned
    /\ ExitTag(locals.out) = "SL"
    /\ instrument.instrument_type # "share"
    /\ cfg.sl > 0
    /\ Len(locals.prices) >= AtrPeriod
    /\ locals.atr_value # Num(0)
    /\ locals.atr_value # Num(1)

====
